---- MODULE Spec2Model ----
(***************************************************************************)
(* go-server-timing: the Server-Timing header model (Header, Metric), the  *)
(* per-request middleware that injects the header at the first commit of   *)
(* the response, and the handlers that record metrics, alone or from       *)
(* concurrent workers.                                                     *)
(*                                                                         *)
(* Strings are sequences of one-character strings; "" is << >>.            *)
(* time.Duration and time.Time are integers counting nanoseconds.          *)
(***************************************************************************)
EXTENDS Integers, Sequences, FiniteSets, TLC

\* ------------------------------------------------------------------ bounds
NumWorkers == 2
MaxOps == 2
MaxMetricCalls == 4
MaxTicks == 2
NumRequests == 2
MaxRecorded == 2
MaxMetrics == 2

\* ------------------------------------------------------- program constants
Millisecond == 1000000
Microsecond == 1000
StatusOK == 200
StatusNotFound == 404
StatusInternalServerError == 500
responseStatus == 201
HeaderKey == "Server-Timing"
OtherKey == "X-Other"

Workers == 1 .. NumWorkers
MetricIds == 0 .. NumWorkers
Digits == <<"0", "1", "2", "3", "4", "5", "6", "7", "8", "9">>

\* MiddlewareOpts: a nil pointer, or the struct with its one field.
NilOpts == [isNil |-> TRUE, DisableHeaders |-> FALSE]
MiddlewareOpts == {NilOpts} \cup {[isNil |-> FALSE, DisableHeaders |-> b] : b \in BOOLEAN}

\* map[string]string: nil, or a function from its keys to their values.
NilMap == [isNil |-> TRUE, kv |-> << >>]
EmptyMap == [isNil |-> FALSE, kv |-> << >>]

\* The zero value of Metric, with the unexported begin instant and the mark
\* that a Stop has recorded a Duration since the last Start.
ZeroMetric ==
    [Name |-> << >>, Duration |-> 0, Desc |-> << >>, Extra |-> NilMap,
     startTime |-> 0, stopped |-> FALSE]

\* &Metric{Name: "sql-1", Duration: 100ms, Desc: "MySQL; lookup Server"}
TestMetric ==
    [ZeroMetric EXCEPT !.Name = <<"s", "q", "l", "-", "1">>,
                       !.Duration = 100 * Millisecond,
                       !.Desc = <<"M", "y", "S", "Q", "L", ";", " ", "l", "o", "o", "k", "u", "p",
                                  " ", "S", "e", "r", "v", "e", "r">>]

\* The metric lists the test handler installs: nil, empty, one metric.
TestMetricLists == {<< >>, <<0>>}

\* fmt.Sprintf("service-%d", i)
ServiceName(i) == <<"s", "e", "r", "v", "i", "c", "e", "-", Digits[i + 1]>>

\* time.Sleep(random(25, 75)): how long a worker's simulated request takes.
SleepTimes == {25 * Millisecond}

\* The bodies and the header values the handler writes: the k-th Write of a
\* response carries the k-th chunk, so that order and loss are observable.
Chunks == <<"a", "b", "c", "d", "e", "f">>
NumWrites(log) == Cardinality({i \in 1 .. Len(log) : log[i].op = "Write"})
Payloads(log) == {<<Chunks[NumWrites(log) + 1]>>}
Codes == {responseStatus}
OtherValues == {<<"v">>}

VARIABLES
    opts,          \* the options Middleware was built with
    useWorkers,    \* the handler records from worker goroutines (example) or installs a list (test)
    Metrics,       \* h.Metrics: the list of metric pointers
    mu,            \* h's mutex: 0 when free, else the worker holding it
    metric,        \* the heap: the Metric each pointer refers to
    wpc,           \* each worker's position
    wtmp,          \* each worker's read of h.Metrics inside append
    now,           \* the clock
    hpc,           \* the handler goroutine's position
    pending,       \* the argument of the hooked call not yet delegated
    ops,           \* number of writer calls the handler has made
    joined,        \* wg.Wait has returned
    headerWritten, \* the middleware's one-shot latch
    headers,       \* the underlying writer's header map
    wroteHeader,   \* the underlying writer has committed
    status,        \* the committed status code
    body,          \* the bytes the underlying writer received
    sent,          \* the header set transmitted at the commit
    calls,         \* history: the operations the handler made, in order
    injections,    \* history: how many times writeHeader has run
    commitSnap,    \* history: the metric list at the underlying commit
    mlog,          \* history: the calls made on the Metric under test, with the clock
    cpc,           \* concurrent requests: each request's position
    cctx,          \* concurrent requests: the context the handler is given
    chdr,          \* concurrent requests: the Header the middleware created (nil when not wrapped)
    cgot,          \* concurrent requests: what FromContext returned to the handler
    hmetrics,      \* concurrent requests: the heap of Headers, each with its recorded metrics
    csent,         \* concurrent requests: the metric list serialized at the commit
    hm,            \* codec: the Header under test, a list of Metric values
    str,           \* codec: what h.String() returned
    parsed,        \* codec: what ParseHeader returned for that string
    cphase,        \* codec: position of the round trip
    hhow,          \* codec: how the list was built, by assignment or by Add
    addlog,        \* codec history: the metrics passed to Add, in call order
    hsql,          \* example handler: its position around its own sql metric
    kpc,           \* concurrent committers: each goroutine's position in the writer hook
    kcall,         \* concurrent committers: the writer call each goroutine makes
    eh,            \* errorHandler: the position of ServeHTTP and how fn ended
    rb             \* errorHandler: the ResponseBuffer handed to fn

\* The state outside the request the middleware serves.
metVars == <<mlog>>
ctxVars == <<cpc, cctx, chdr, cgot, hmetrics, csent>>
codecVars == <<hm, str, parsed, cphase, hhow, addlog>>
exVars == <<hsql>>
raceVars == <<kpc, kcall>>
panicVars == <<eh, rb>>
auxVars == <<metVars, ctxVars, codecVars, exVars, raceVars, panicVars>>

vars == <<opts, useWorkers, Metrics, mu, metric, wpc, wtmp, now, hpc, pending, ops, joined,
          headerWritten, headers, wroteHeader, status, body, sent, calls, injections, commitSnap,
          auxVars>>

hdrVars == <<Metrics, mu, metric, wpc, wtmp>>
respVars == <<headers, wroteHeader, status, body, sent, commitSnap>>

\* ------------------------------------------------------------ http.Header
HeaderSet(h, k, v) == [x \in (DOMAIN h) \cup {k} |-> IF x = k THEN v ELSE h[x]]
HeaderGet(h, k) == IF k \in DOMAIN h THEN h[k] ELSE << >>
HeaderHas(h, k) == k \in DOMAIN h
EmptyHeaders == [x \in {} |-> << >>]

\* -------------------------------------------------------------- Header
\* The metrics a list of pointers refers to.
Deref(list, heap) == [i \in 1 .. Len(list) |-> heap[list[i]]]

\* Header.String
HeaderString_strayComma(ms) == <<",">>
HeaderString(ms) == << >>

\* Header.Lock: the mutex can be taken only when free.
CanLock_noMutex(m) == TRUE
CanLock(m) == m = 0

\* Header.NewMetric: the Metric it allocates.
NewMetricValue(name) == [ZeroMetric EXCEPT !.Name = name, !.Extra = EmptyMap]

\* Metric.Start: record the begin instant, overwriting an earlier one.
MetricStart_keepFirst(m, t) ==
    IF m.startTime # 0 THEN m ELSE [m EXCEPT !.startTime = t, !.stopped = FALSE]
MetricStart(m, t) == [m EXCEPT !.startTime = t, !.stopped = FALSE]

\* Metric.Stop: record the time since the begin instant, if there is one.
\* The begin instant stays: a later Stop records the time since it again.
MetricStop_noStartCheck(m, t) ==
    [m EXCEPT !.Duration = t - m.startTime, !.stopped = TRUE]
MetricStop_clearsBegin(m, t) ==
    IF m.startTime # 0
    THEN [m EXCEPT !.Duration = t - m.startTime, !.startTime = 0, !.stopped = TRUE]
    ELSE m
MetricStop_onlyOnce(m, t) ==
    IF m.startTime # 0 /\ ~m.stopped
    THEN [m EXCEPT !.Duration = t - m.startTime, !.stopped = TRUE]
    ELSE m
MetricStop(m, t) ==
    IF m.startTime # 0
    THEN [m EXCEPT !.Duration = t - m.startTime, !.stopped = TRUE]
    ELSE m

\* Metric.StopUnlessStopped: Stop, unless a Stop has already recorded.
MetricStopUnlessStopped_always(m, t) == MetricStop(m, t)
MetricStopUnlessStopped(m, t) == IF m.stopped THEN m ELSE MetricStop(m, t)

\* ----------------------------------------------------------- middleware
Disabled(o) == ~o.isNil /\ o.DisableHeaders

\* writeHeader: serialize the Header and set the Server-Timing header.
writeHeader_firstName(hdrs, ms, o) ==
    IF ~Disabled(o) /\ Len(ms) > 0 THEN HeaderSet(hdrs, HeaderKey, ms[1].Name) ELSE hdrs
writeHeader_noEmptyCheck(hdrs, ms, o) ==
    IF ~Disabled(o) THEN HeaderSet(hdrs, HeaderKey, HeaderString(ms)) ELSE hdrs
writeHeader_freshMap(hdrs, ms, o) ==
    IF ~Disabled(o) /\ Len(ms) > 0
    THEN [x \in {HeaderKey} |-> HeaderString(ms)]
    ELSE EmptyHeaders
writeHeader(hdrs, ms, o) ==
    IF ~Disabled(o) /\ HeaderString(ms) # << >>
    THEN HeaderSet(hdrs, HeaderKey, HeaderString(ms))
    ELSE hdrs

\* The latch test of the WriteHeader hook and of the Write hook.
InjectOnWriteHeader_noLatch(hw) == TRUE
InjectOnWriteHeader(hw) == ~hw
InjectOnWrite_noLatch(hw) == TRUE
InjectOnWrite(hw) == ~hw

\* ---------------------------------------------------------------- Init
\* Middleware: a fresh Header in the request context, the latch unset, the
\* underlying writer untouched; the handler has not run yet.
\* Requests served at the same time, and the Headers that exist: one per
\* request and one a caller attached before the middleware ran.
Requests == 1 .. NumRequests
HeaderIds == 1 .. (NumRequests + 1)
OuterHeader == NumRequests + 1
NilHeader == 0

\* No Metric under test, no concurrent requests, no codec round trip.
NoMetricCalls == mlog = << >>

NoContext ==
    /\ cpc = [r \in Requests |-> "done"]
    /\ cctx = [r \in Requests |-> << >>]
    /\ chdr = [r \in Requests |-> NilHeader]
    /\ cgot = [r \in Requests |-> << >>]
    /\ hmetrics = [h \in HeaderIds |-> << >>]
    /\ csent = [r \in Requests |-> << >>]

\* The handler is not the example's.
NoExample == hsql = "none"

\* No goroutine is inside a writer hook of its own.
NoRace ==
    /\ kpc = [w \in Workers |-> "none"]
    /\ kcall = [w \in Workers |-> << >>]

\* No errorHandler is serving.
NoPanic ==
    /\ eh = [pc |-> "none", end |-> "none", code |-> 0, errFn |-> "none"]
    /\ rb = [status |-> 0, body |-> << >>]

NoCodec ==
    /\ hm = << >>
    /\ str = << >>
    /\ parsed = << >>
    /\ cphase = "idle"
    /\ hhow = "none"
    /\ addlog = << >>

Init ==
    /\ opts \in MiddlewareOpts
    /\ useWorkers \in BOOLEAN
    /\ Metrics = << >>
    /\ mu = 0
    /\ metric = [i \in MetricIds |-> IF i = 0 THEN TestMetric ELSE ZeroMetric]
    /\ wpc = [w \in Workers |-> IF useWorkers THEN "new" ELSE "exit"]
    /\ wtmp = [w \in Workers |-> << >>]
    /\ now = Millisecond
    /\ hpc = "run"
    /\ pending = << >>
    /\ ops = 0
    /\ joined = FALSE
    /\ headerWritten = FALSE
    /\ headers = EmptyHeaders
    /\ wroteHeader = FALSE
    /\ status = 0
    /\ body = << >>
    /\ sent = EmptyHeaders
    /\ calls = << >>
    /\ injections = 0
    /\ commitSnap = << >>
    /\ NoMetricCalls
    /\ NoContext
    /\ NoCodec
    /\ NoExample
    /\ NoRace
    /\ NoPanic

\* ------------------------------------------------------ worker goroutines
\* defer timing.NewMetric(name).Start().Stop(): NewMetric takes the lock,
\* allocates the Metric and reads the list ...
WorkerNewMetric(w) ==
    /\ wpc[w] = "new"
    /\ CanLock(mu)
    /\ mu' = w
    /\ metric' = [metric EXCEPT ![w] = NewMetricValue(ServiceName(w))]
    /\ wtmp' = [wtmp EXCEPT ![w] = Metrics]
    /\ wpc' = [wpc EXCEPT ![w] = "append"]
    /\ UNCHANGED <<auxVars, opts, useWorkers, Metrics, now, hpc, pending, ops, joined, headerWritten,
                   calls, injections>>
    /\ UNCHANGED respVars

\* ... stores the appended list and releases the lock; .Start() on the
\* returned Metric, which only this goroutine reads until it stops it.
WorkerAppend(w) ==
    /\ wpc[w] = "append"
    /\ Metrics' = Append(wtmp[w], w)
    /\ mu' = 0
    /\ metric' = [metric EXCEPT ![w] = MetricStart(metric[w], now)]
    /\ wpc' = [wpc EXCEPT ![w] = "wgdone"]
    /\ UNCHANGED <<auxVars, opts, useWorkers, wtmp, now, hpc, pending, ops, joined,
                   headerWritten, calls, injections>>
    /\ UNCHANGED respVars

\* time.Sleep(d); wg.Done()
WorkerDone(w, d) ==
    /\ wpc[w] = "wgdone"
    /\ now' = now + d
    /\ wpc' = [wpc EXCEPT ![w] = "stop"]
    /\ UNCHANGED <<auxVars, opts, useWorkers, Metrics, mu, metric, wtmp, hpc, pending, ops, joined,
                   headerWritten, calls, injections>>
    /\ UNCHANGED respVars

\* The deferred .Stop(), run as the goroutine's function returns.
WorkerStop(w) ==
    /\ wpc[w] = "stop"
    /\ metric' = [metric EXCEPT ![w] = MetricStop(metric[w], now)]
    /\ wpc' = [wpc EXCEPT ![w] = "exit"]
    /\ UNCHANGED <<auxVars, opts, useWorkers, Metrics, mu, wtmp, now, hpc, pending, ops, joined,
                   headerWritten, calls, injections>>
    /\ UNCHANGED respVars

\* ---------------------------------------------------- the handler goroutine
\* h.Metrics = tt.Metrics: the test handler installs a whole list.
HandlerSetMetrics(list) ==
    /\ hpc = "run"
    /\ ~useWorkers
    /\ \A i \in 1 .. Len(calls) : calls[i].op # "SetMetrics"
    /\ Metrics' = list
    /\ calls' = Append(calls, [op |-> "SetMetrics", arg |-> list])
    /\ UNCHANGED <<auxVars, opts, useWorkers, mu, metric, wpc, wtmp, now, hpc, pending, ops, joined,
                   headerWritten, injections>>
    /\ UNCHANGED respVars

\* wg.Wait(): returns once every worker has called wg.Done().
HandlerWait ==
    /\ hpc = "run"
    /\ useWorkers
    /\ ~joined
    /\ \A w \in Workers : wpc[w] \in {"stop", "exit"}
    /\ joined' = TRUE
    /\ calls' = Append(calls, [op |-> "Wait", arg |-> << >>])
    /\ UNCHANGED <<auxVars, opts, useWorkers, now, hpc, pending, ops, headerWritten, injections>>
    /\ UNCHANGED hdrVars
    /\ UNCHANGED respVars

\* w.Header().Set(OtherKey, v): the header map is the underlying writer's own.
HandlerSetHeader(v) ==
    /\ hpc = "run"
    /\ ~useWorkers
    /\ \A i \in 1 .. Len(calls) : calls[i].op # "Header"
    /\ headers' = HeaderSet(headers, OtherKey, v)
    /\ calls' = Append(calls, [op |-> "Header", arg |-> v])
    /\ UNCHANGED <<auxVars, opts, useWorkers, now, hpc, pending, ops, joined, headerWritten, injections>>
    /\ UNCHANGED <<wroteHeader, status, body, sent, commitSnap>>
    /\ UNCHANGED hdrVars

\* The injection both hooks share: writeHeader under the Header's lock, then
\* the latch is set.
Inject(needed) ==
    IF needed
    THEN /\ CanLock(mu)
         /\ headers' = writeHeader(headers, Deref(Metrics, metric), opts)
         /\ injections' = injections + 1
         /\ headerWritten' = TRUE
    ELSE UNCHANGED <<headers, injections, headerWritten>>

\* w.WriteHeader(code), the hook's first half: inject unless already done.
HandlerWriteHeader(code) ==
    /\ hpc = "run"
    /\ ops < MaxOps
    /\ Inject(InjectOnWriteHeader(headerWritten))
    /\ pending' = code
    /\ hpc' = "writeheader"
    /\ ops' = ops + 1
    /\ calls' = Append(calls, [op |-> "WriteHeader", arg |-> code])
    /\ UNCHANGED <<auxVars, opts, useWorkers, now, joined>>
    /\ UNCHANGED <<wroteHeader, status, body, sent, commitSnap>>
    /\ UNCHANGED hdrVars

\* w.Write(b), the hook's first half: inject unless already done.
HandlerWrite(b) ==
    /\ hpc = "run"
    /\ ops < MaxOps
    /\ Inject(InjectOnWrite(headerWritten))
    /\ pending' = b
    /\ hpc' = "write"
    /\ ops' = ops + 1
    /\ calls' = Append(calls, [op |-> "Write", arg |-> b])
    /\ UNCHANGED <<auxVars, opts, useWorkers, now, joined>>
    /\ UNCHANGED <<wroteHeader, status, body, sent, commitSnap>>
    /\ UNCHANGED hdrVars

\* The underlying writer's commit: the first status fixes the status line and
\* the header set that goes on the wire; later ones are ignored.
Commit(code) ==
    IF wroteHeader
    THEN UNCHANGED <<wroteHeader, status, sent, commitSnap>>
    ELSE /\ wroteHeader' = TRUE
         /\ status' = code
         /\ sent' = headers
         /\ commitSnap' = Deref(Metrics, metric)

\* original(code): the hook delegates WriteHeader to the underlying writer.
OriginalWriteHeader ==
    /\ hpc = "writeheader"
    /\ Commit(pending)
    /\ hpc' = "run"
    /\ pending' = << >>
    /\ UNCHANGED <<auxVars, opts, useWorkers, now, ops, joined, headerWritten, headers, body, calls,
                   injections>>
    /\ UNCHANGED hdrVars

\* original(b): the hook delegates Write; the underlying writer commits the
\* default status first when nothing was committed, then takes the bytes.
OriginalWrite ==
    /\ hpc = "write"
    /\ Commit(StatusOK)
    /\ body' = body \o pending
    /\ hpc' = "run"
    /\ pending' = << >>
    /\ UNCHANGED <<auxVars, opts, useWorkers, now, ops, joined, headerWritten, headers, calls, injections>>
    /\ UNCHANGED hdrVars

\* The handler returns.
HandlerReturn ==
    /\ hpc = "run"
    /\ hpc' = "done"
    /\ UNCHANGED <<auxVars, opts, useWorkers, now, pending, ops, joined, headerWritten, calls, injections>>
    /\ UNCHANGED hdrVars
    /\ UNCHANGED respVars

\* next.ServeHTTP has returned and no hook has injected: the middleware
\* does, before it returns itself (with the latch set there is nothing to do).
MiddlewareReturn ==
    /\ hpc = "done"
    /\ ~headerWritten
    /\ Inject(TRUE)
    /\ UNCHANGED <<auxVars, opts, useWorkers, now, hpc, pending, ops, joined, calls>>
    /\ UNCHANGED hdrVars
    /\ UNCHANGED <<wroteHeader, status, body, sent, commitSnap>>

Next ==
    \/ \E w \in Workers : WorkerNewMetric(w)
    \/ \E w \in Workers : WorkerAppend(w)
    \/ \E w \in Workers, d \in SleepTimes : WorkerDone(w, d)
    \/ \E w \in Workers : WorkerStop(w)
    \/ \E list \in TestMetricLists : HandlerSetMetrics(list)
    \/ HandlerWait
    \/ \E v \in OtherValues : HandlerSetHeader(v)
    \/ \E code \in Codes : HandlerWriteHeader(code)
    \/ \E b \in Payloads(calls) : HandlerWrite(b)
    \/ OriginalWriteHeader
    \/ OriginalWrite
    \/ HandlerReturn
    \/ MiddlewareReturn

Spec == Init /\ [][Next]_vars

\* ------------------------------------------------- what the handler did
IsWriterCall(c) == c.op \in {"WriteHeader", "Write"}
WriterCalls(log) == SelectSeq(log, IsWriterCall)

\* The status the handler asked for: what it passed to its first WriteHeader,
\* or the default when its first commit was a Write; 0 before any commit.
ExpectedStatus(log) ==
    LET wc == WriterCalls(log)
    IN  IF wc = << >> THEN 0
        ELSE IF wc[1].op = "WriteHeader" THEN wc[1].arg ELSE StatusOK

\* The bytes the handler wrote, in order.
RECURSIVE ExpectedBody(_)
ExpectedBody(log) ==
    IF log = << >> THEN << >>
    ELSE LET rest == ExpectedBody(SubSeq(log, 1, Len(log) - 1))
             c == log[Len(log)]
         IN  IF c.op = "Write" THEN rest \o c.arg ELSE rest

\* The other header as the handler last set it (<< >> when it never did).
HeaderCalls(log) == SelectSeq(log, LAMBDA c : c.op = "Header")
ExpectedOther(log) ==
    LET hc == HeaderCalls(log) IN IF hc = << >> THEN << >> ELSE hc[Len(hc)].arg

\* The handler's calls before its first commit.
FirstWriterIndex(log) ==
    IF WriterCalls(log) = << >> THEN Len(log) + 1
    ELSE CHOOSE i \in 1 .. Len(log) :
            /\ IsWriterCall(log[i])
            /\ \A j \in 1 .. (i - 1) : ~IsWriterCall(log[j])
BeforeCommit(log) == SubSeq(log, 1, FirstWriterIndex(log) - 1)

\* No hooked call is half done.
Quiescent == hpc \in {"run", "done"}

\* The first commit was a Write: the handler never committed explicitly.
ImplicitCommit == wroteHeader /\ WriterCalls(calls)[1].op = "Write"

\* wg.Wait() returned before the handler's first commit.
JoinedBeforeCommit == \E i \in 1 .. Len(BeforeCommit(calls)) : calls[i].op = "Wait"

\* sub occurs in s.
Contains(sub, s) ==
    \E i \in 0 .. (Len(s) - Len(sub)) : SubSeq(s, i + 1, i + Len(sub)) = sub

\* ------------------------------------------------------------------ claims

\* C1: whenever the underlying writer has committed for a request whose
\* Header was non-empty and whose options do not disable headers, the
\* Server-Timing header is in the header set that was committed.
C1_HeaderSetBeforeCommit ==
    (wroteHeader /\ ~Disabled(opts) /\ Len(commitSnap) > 0) => HeaderHas(sent, HeaderKey)

C3_ImplicitCommit ==
    ImplicitCommit =>
        /\ status = StatusOK
        /\ (~Disabled(opts) /\ Len(commitSnap) > 0) => HeaderHas(sent, HeaderKey)

\* C4: with DisableHeaders the Server-Timing key is never in the header set;
\* with nil options or DisableHeaders false it is emitted for a non-empty
\* Header.
C4_DisableOption ==
    /\ Disabled(opts) => (~HeaderHas(headers, HeaderKey) /\ ~HeaderHas(sent, HeaderKey))
    /\ (~Disabled(opts) /\ Len(commitSnap) > 0 /\ wroteHeader) => HeaderHas(sent, HeaderKey)

\* C5: an empty metric list serializes to the empty string, and a response
\* committed with an empty list has no Server-Timing key at all.
C5_EmptyHeaderAbsent ==
    /\ HeaderString(<< >>) = << >>
    /\ (wroteHeader /\ commitSnap = << >>) =>
           (~HeaderHas(sent, HeaderKey) /\ ~HeaderHas(headers, HeaderKey))

\* The test handler installed an empty list and committed, headers enabled.
C5_Witness ==
    /\ wroteHeader
    /\ commitSnap = << >>
    /\ ~Disabled(opts)
    /\ \E i \in 1 .. Len(BeforeCommit(calls)) : calls[i].op = "SetMetrics"

\* C6: apart from Server-Timing the underlying writer holds what the handler
\* did: its status (or 200), its bytes in order, its other header.
C6_Frame ==
    /\ (IF hpc = "write" THEN body \o pending ELSE body) = ExpectedBody(calls)
    /\ DOMAIN headers \subseteq {HeaderKey, OtherKey}
    /\ HeaderHas(headers, OtherKey) = (HeaderCalls(calls) # << >>)
    /\ HeaderGet(headers, OtherKey) = ExpectedOther(calls)
    /\ Quiescent =>
           /\ status = ExpectedStatus(calls)
           /\ wroteHeader = (WriterCalls(calls) # << >>)
    /\ wroteHeader =>
           /\ HeaderHas(sent, OtherKey) = (HeaderCalls(BeforeCommit(calls)) # << >>)
           /\ HeaderGet(sent, OtherKey) = ExpectedOther(BeforeCommit(calls))

\* The handler set another header, committed a status and wrote a body.
C6_Witness ==
    /\ hpc = "done"
    /\ status = responseStatus
    /\ Len(body) > 0
    /\ HeaderHas(sent, OtherKey)

\* C7: the Header is serialized and injected at most once per request, by
\* the first commit.
C7_InjectOnce ==
    /\ injections <= 1
    /\ wroteHeader => injections = 1

\* The handler made a second commit attempt.
C7_Witness == Quiescent /\ Len(WriterCalls(calls)) >= 2 /\ injections = 1

\* C8: once committed, the Server-Timing value (transmitted, and in the
\* header map) never changes and is never serialized again, whatever is
\* recorded afterwards.
C8_FrozenAfterCommit ==
    [][wroteHeader =>
          /\ HeaderHas(sent', HeaderKey) = HeaderHas(sent, HeaderKey)
          /\ HeaderGet(sent', HeaderKey) = HeaderGet(sent, HeaderKey)
          /\ HeaderHas(headers', HeaderKey) = HeaderHas(headers, HeaderKey)
          /\ HeaderGet(headers', HeaderKey) = HeaderGet(headers, HeaderKey)
          /\ injections' = injections]_vars

\* After the commit a metric was added, another one's Duration was changed
\* by Stop, and the handler called the writer again.
C8_Witness ==
    /\ wroteHeader
    /\ Quiescent
    /\ Len(WriterCalls(calls)) >= 2
    /\ Len(Metrics) > Len(commitSnap)
    /\ \E i \in 1 .. Len(commitSnap) : metric[Metrics[i]].Duration # commitSnap[i].Duration

\* C9: the list holds exactly one entry per NewMetric call that has
\* returned, so exactly NumWorkers once all have.
C9_NoLostAppend ==
    useWorkers =>
        /\ \A w \in Workers :
               Cardinality({i \in 1 .. Len(Metrics) : Metrics[i] = w})
                   = (IF wpc[w] \in {"new", "append"} THEN 0 ELSE 1)
        /\ Len(Metrics) = Cardinality({w \in Workers : wpc[w] \notin {"new", "append"}})

\* Every worker's NewMetric has returned.
C9_Witness ==
    /\ useWorkers
    /\ \A w \in Workers : wpc[w] \notin {"new", "append"}
    /\ Len(Metrics) = NumWorkers

\* C10: when the handler joined its workers before committing, every
\* worker's metric is in the transmitted Server-Timing value.
C10_JoinedMetricsTransmitted ==
    (wroteHeader /\ JoinedBeforeCommit /\ ~Disabled(opts)) =>
        \A w \in Workers : Contains(ServiceName(w), HeaderGet(sent, HeaderKey))

\* The handler recorded a metric before it returned: it installed a
\* non-empty list, or it joined its workers.
RecordedBeforeReturn ==
    \/ \E i \in 1 .. Len(calls) : calls[i].op = "SetMetrics" /\ calls[i].arg # << >>
    \/ joined

\* C37: when the handler has returned without any WriteHeader or Write,
\* having recorded a metric, and headers are not disabled, the Server-Timing
\* header is in the response's header set once the middleware has returned,
\* so that the transport's implicit commit sends it.
C37_HeaderSetAtReturn ==
    (/\ hpc = "done"
     /\ headerWritten
     /\ WriterCalls(calls) = << >>
     /\ RecordedBeforeReturn
     /\ ~Disabled(opts)) =>
        /\ HeaderHas(headers, HeaderKey)
        /\ HeaderGet(headers, HeaderKey) # << >>

\* ===================================================================
\* Metric: Start, Stop and StopUnlessStopped on one Metric (var m Metric,
\* here metric[0]) as the clock advances.
\* ===================================================================

\* The request state, at rest: no request is being served.
reqVars == <<opts, useWorkers, Metrics, mu, wpc, wtmp, hpc, pending, ops, joined, headerWritten,
             headers, wroteHeader, status, body, sent, calls, injections, commitSnap>>

NoRequest ==
    /\ opts = NilOpts
    /\ useWorkers = FALSE
    /\ Metrics = << >>
    /\ mu = 0
    /\ wpc = [w \in Workers |-> "exit"]
    /\ wtmp = [w \in Workers |-> << >>]
    /\ hpc = "done"
    /\ pending = << >>
    /\ ops = 0
    /\ joined = FALSE
    /\ headerWritten = FALSE
    /\ headers = EmptyHeaders
    /\ wroteHeader = FALSE
    /\ status = 0
    /\ body = << >>
    /\ sent = EmptyHeaders
    /\ calls = << >>
    /\ injections = 0
    /\ commitSnap = << >>

\* var m Metric, or a Metric built with a Duration and never started.
InitMetric ==
    /\ NoRequest
    /\ \E m0 \in {ZeroMetric, TestMetric} : metric = [i \in MetricIds |-> m0]
    /\ now = Millisecond
    /\ mlog = << >>
    /\ NoContext
    /\ NoCodec
    /\ NoExample
    /\ NoRace
    /\ NoPanic

\* One call on the Metric, recorded with the clock and the Duration before
\* and after it.
MetricCall(name, after) ==
    /\ metric' = [metric EXCEPT ![0] = after]
    /\ mlog' = Append(mlog, [op |-> name, t |-> now,
                             before |-> metric[0].Duration, after |-> after.Duration])
    /\ UNCHANGED now
    /\ UNCHANGED <<reqVars, ctxVars, codecVars, exVars, raceVars, panicVars>>

\* m.Start()
CallStart ==
    /\ Len(mlog) < MaxMetricCalls
    /\ MetricCall("Start", MetricStart(metric[0], now))

\* m.Stop()
CallStop ==
    /\ Len(mlog) < MaxMetricCalls
    /\ MetricCall("Stop", MetricStop(metric[0], now))

\* m.StopUnlessStopped()
CallStopUnlessStopped ==
    /\ Len(mlog) < MaxMetricCalls
    /\ MetricCall("StopUnlessStopped", MetricStopUnlessStopped(metric[0], now))

\* time.Sleep: time passes between two calls.
MetricTick ==
    /\ now < (1 + MaxTicks) * Millisecond
    /\ now' = now + Millisecond
    /\ UNCHANGED <<metric, mlog>>
    /\ UNCHANGED <<reqVars, ctxVars, codecVars, exVars, raceVars, panicVars>>

NextMetric ==
    \/ CallStart
    \/ CallStop
    \/ CallStopUnlessStopped
    \/ MetricTick

SpecMetric == InitMetric /\ [][NextMetric]_vars

\* The last Start before call i (0 when there is none).
LastStart(i) ==
    LET starts == {k \in 1 .. (i - 1) : mlog[k].op = "Start"}
    IN  IF starts = {} THEN 0 ELSE CHOOSE k \in starts : \A x \in starts : x <= k

\* Call k is the first Stop after the Start it follows.
FirstStop(k) ==
    /\ mlog[k].op = "Stop"
    /\ LastStart(k) # 0
    /\ \A x \in (LastStart(k) + 1) .. (k - 1) : mlog[x].op # "Stop"

\* C14: Stop on a Metric that was never started leaves Duration as it was
\* (0 for a fresh Metric).
C14_StopWithoutStart ==
    \A i \in 1 .. Len(mlog) :
        (mlog[i].op = "Stop" /\ LastStart(i) = 0) => mlog[i].after = mlog[i].before

\* A never-started Metric was stopped after time had passed.
C14_Witness ==
    \E i \in 1 .. Len(mlog) :
        mlog[i].op = "Stop" /\ LastStart(i) = 0 /\ mlog[i].t > Millisecond

\* C15: after Start and Stop, every StopUnlessStopped of an unbroken run of
\* them leaves the Duration the Stop recorded.
C15_StopUnlessStoppedIdempotent ==
    \A k \in 1 .. Len(mlog) : \A i \in (k + 1) .. Len(mlog) :
        (/\ mlog[k].op = "Stop"
         /\ LastStart(k) # 0
         /\ \A x \in (k + 1) .. i : mlog[x].op = "StopUnlessStopped")
        => mlog[i].after = mlog[k].after

\* Start, Stop, then StopUnlessStopped twice, the last one later in time.
C15_Witness ==
    \E k \in 1 .. Len(mlog) :
        /\ mlog[k].op = "Stop"
        /\ LastStart(k) # 0
        /\ k + 2 <= Len(mlog)
        /\ mlog[k + 1].op = "StopUnlessStopped"
        /\ mlog[k + 2].op = "StopUnlessStopped"
        /\ mlog[k + 2].t > mlog[k].t

\* C16, as claimed: after Start only the first Stop has effect; a later Stop
\* with no Start in between leaves Duration as the first Stop recorded it.
C16_OnlyFirstStop ==
    \A k \in 1 .. Len(mlog) : \A j \in (k + 1) .. Len(mlog) :
        (FirstStop(k) /\ mlog[j].op = "Stop" /\ LastStart(j) = LastStart(k))
        => mlog[j].after = mlog[k].after

\* C16, amended: every Stop after a Start has effect; a later Stop with no
\* Start in between records the time since that same Start, so its Duration
\* is the first Stop's plus the time that passed between the two calls.
C16_EveryStopRecords ==
    \A k \in 1 .. Len(mlog) : \A j \in (k + 1) .. Len(mlog) :
        (FirstStop(k) /\ mlog[j].op = "Stop" /\ LastStart(j) = LastStart(k))
        => mlog[j].after = mlog[k].after + (mlog[j].t - mlog[k].t)

\* Two Stops after one Start, the second later in time.
C16_Witness ==
    \E k \in 1 .. Len(mlog) : \E j \in (k + 1) .. Len(mlog) :
        /\ FirstStop(k)
        /\ mlog[j].op = "Stop"
        /\ LastStart(j) = LastStart(k)
        /\ mlog[j].t > mlog[k].t

\* C17: in Start, Stop, StopUnlessStopped, Stop with time passing, the last
\* Stop's Duration differs from the first Stop's.
C17_PlainStopResets ==
    \A k \in 1 .. Len(mlog) : \A i \in (k + 1) .. Len(mlog) : \A j \in (i + 1) .. Len(mlog) :
        (/\ FirstStop(k)
         /\ mlog[i].op = "StopUnlessStopped"
         /\ mlog[j].op = "Stop"
         /\ LastStart(j) = LastStart(k)
         /\ mlog[k].t < mlog[i].t
         /\ mlog[i].t < mlog[j].t)
        => mlog[j].after # mlog[k].after

\* The test's sequence: Start, Stop, sleep, StopUnlessStopped, sleep, Stop.
C17_Witness ==
    /\ Len(mlog) = 4
    /\ mlog[1].op = "Start"
    /\ mlog[2].op = "Stop"
    /\ mlog[3].op = "StopUnlessStopped"
    /\ mlog[4].op = "Stop"
    /\ mlog[2].t < mlog[3].t
    /\ mlog[3].t < mlog[4].t

\* C18: the next Stop after a Start at t0, called at t1, records t1 - t0,
\* which is positive when t1 > t0.
C18_ElapsedTime ==
    \A j \in 1 .. Len(mlog) :
        (/\ mlog[j].op = "Stop"
         /\ LastStart(j) # 0
         /\ \A x \in (LastStart(j) + 1) .. (j - 1) : mlog[x].op = "Start")
        => /\ mlog[j].after = mlog[j].t - mlog[LastStart(j)].t
           /\ (mlog[j].t > mlog[LastStart(j)].t) => mlog[j].after > 0

\* Start, then Stop later in time, directly after the Start.
C18_Witness ==
    \E j \in 2 .. Len(mlog) :
        /\ mlog[j].op = "Stop"
        /\ mlog[j - 1].op = "Start"
        /\ mlog[j].t > mlog[j - 1].t

\* ===================================================================
\* Context: NewContext and FromContext, and requests served at the same
\* time, wrapped by Middleware or not.
\* ===================================================================

\* The key under which the Header is bound, and another package's key.
HeaderCtxKey == "servertiming.Header"
OtherCtxKey == "other"

\* context.WithValue(ctx, key, h): a context is the list of its bindings,
\* innermost last.
NewContext_dropped(ctx, h) == ctx
NewContext(ctx, h) == Append(ctx, [key |-> HeaderCtxKey, val |-> h])

\* ctx.Value(key) asserted to *Header with the comma-ok form: the innermost
\* binding of the key, nil when there is none.
FromContext_mustHave(ctx) ==
    LET bound == {i \in 1 .. Len(ctx) : ctx[i].key = HeaderCtxKey}
    IN  IF bound = {}
        THEN [hdr |-> NilHeader, panicked |-> TRUE]
        ELSE [hdr |-> ctx[CHOOSE i \in bound : \A j \in bound : j <= i].val, panicked |-> FALSE]
FromContext(ctx) ==
    LET bound == {i \in 1 .. Len(ctx) : ctx[i].key = HeaderCtxKey}
    IN  IF bound = {}
        THEN [hdr |-> NilHeader, panicked |-> FALSE]
        ELSE [hdr |-> ctx[CHOOSE i \in bound : \A j \in bound : j <= i].val, panicked |-> FALSE]

\* new(Header), or the Header literal of the middleware: an object no one
\* else holds.
AllocHeader_singleton(used) == 1
AllocHeader(used) == CHOOSE h \in Requests : h \notin used

\* The contexts a request arrives with: context.Background(), one carrying
\* another package's value, one to which a caller attached a Header.
BaseContexts ==
    {<< >>,
     <<[key |-> OtherCtxKey, val |-> OuterHeader]>>,
     <<[key |-> HeaderCtxKey, val |-> OuterHeader]>>}

HasHeader(ctx) == \E i \in 1 .. Len(ctx) : ctx[i].key = HeaderCtxKey

InitContext ==
    /\ NoRequest
    /\ metric = [i \in MetricIds |-> ZeroMetric]
    /\ now = Millisecond
    /\ NoMetricCalls
    /\ NoCodec
    /\ NoExample
    /\ NoRace
    /\ NoPanic
    /\ cpc = [r \in Requests |-> "new"]
    /\ cctx = [r \in Requests |-> << >>]
    /\ chdr = [r \in Requests |-> NilHeader]
    /\ cgot = [r \in Requests |-> << >>]
    /\ hmetrics = [h \in HeaderIds |-> << >>]
    /\ csent = [r \in Requests |-> << >>]

ctxFrame == UNCHANGED <<reqVars, metric, now, metVars, codecVars, exVars, raceVars, panicVars>>

\* Middleware(handler, opts).ServeHTTP: a new Header, bound to the request's
\* context, and the handler is called with that context.
ServeWrapped(r, base) ==
    /\ cpc[r] = "new"
    /\ LET h == AllocHeader({chdr[q] : q \in Requests})
       IN  /\ chdr' = [chdr EXCEPT ![r] = h]
           /\ cctx' = [cctx EXCEPT ![r] = NewContext(base, h)]
    /\ cpc' = [cpc EXCEPT ![r] = "handler"]
    /\ UNCHANGED <<cgot, hmetrics, csent>>
    /\ ctxFrame

\* handler.ServeHTTP called directly, with no middleware.
ServeBare(r, base) ==
    /\ cpc[r] = "new"
    /\ cctx' = [cctx EXCEPT ![r] = base]
    /\ cpc' = [cpc EXCEPT ![r] = "handler"]
    /\ UNCHANGED <<chdr, cgot, hmetrics, csent>>
    /\ ctxFrame

\* h := FromContext(r.Context()), and the metrics h holds at that moment.
HandlerFromContext(r) ==
    /\ cpc[r] = "handler"
    /\ cgot[r] = << >>
    /\ LET res == FromContext(cctx[r])
       IN  cgot' = [cgot EXCEPT ![r] =
                       <<[hdr |-> res.hdr, panicked |-> res.panicked,
                          seen |-> IF res.hdr = NilHeader THEN << >> ELSE hmetrics[res.hdr]]>>]
    /\ UNCHANGED <<cpc, cctx, chdr, hmetrics, csent>>
    /\ ctxFrame

\* h.NewMetric(...): the handler of request r records a metric, named after
\* the request, on the Header it got.
HandlerRecord(r) ==
    /\ cpc[r] \in {"handler", "committed"}
    /\ cgot[r] # << >>
    /\ cgot[r][1].hdr # NilHeader
    /\ ~cgot[r][1].panicked
    /\ Len(hmetrics[cgot[r][1].hdr]) < MaxRecorded
    /\ hmetrics' = [hmetrics EXCEPT ![cgot[r][1].hdr] = Append(@, r)]
    /\ UNCHANGED <<cpc, cctx, chdr, cgot, csent>>
    /\ ctxFrame

\* The first commit of the response: the middleware of a wrapped request
\* serializes its own Header.
RequestCommit(r) ==
    /\ cpc[r] = "handler"
    /\ cgot[r] # << >>
    /\ csent' = [csent EXCEPT ![r] = IF chdr[r] = NilHeader THEN << >> ELSE hmetrics[chdr[r]]]
    /\ cpc' = [cpc EXCEPT ![r] = "committed"]
    /\ UNCHANGED <<cctx, chdr, cgot, hmetrics>>
    /\ ctxFrame

NextContext ==
    \/ \E r \in Requests : \E base \in BaseContexts : ServeWrapped(r, base)
    \/ \E r \in Requests : \E base \in BaseContexts : ServeBare(r, base)
    \/ \E r \in Requests : HandlerFromContext(r)
    \/ \E r \in Requests : HandlerRecord(r)
    \/ \E r \in Requests : RequestCommit(r)

SpecContext == InitContext /\ [][NextContext]_vars

\* C11: inside the handler of a request served through Middleware,
\* FromContext returns a non-nil Header with no metrics, distinct from the
\* Header any other request got; and the metric list serialized for a request
\* holds only metrics that request recorded.
C11_HeaderPerRequest ==
    \A r \in Requests :
        /\ (chdr[r] # NilHeader /\ cgot[r] # << >>) =>
              /\ cgot[r][1].hdr # NilHeader
              /\ ~cgot[r][1].panicked
              /\ cgot[r][1].seen = << >>
              /\ \A q \in Requests \ {r} : cgot[q] # << >> => cgot[q][1].hdr # cgot[r][1].hdr
        /\ (chdr[r] # NilHeader /\ cpc[r] = "committed") =>
              \A i \in 1 .. Len(csent[r]) : csent[r][i] = r

\* Two requests served through Middleware at the same time have each
\* recorded a metric and committed.
C11_Witness ==
    \E r \in Requests : \E q \in Requests \ {r} :
        /\ chdr[r] # NilHeader /\ cpc[r] = "committed" /\ csent[r] = <<r>>
        /\ chdr[q] # NilHeader /\ cpc[q] = "committed" /\ csent[q] = <<q>>

\* C12: FromContext(NewContext(ctx, h)) is h itself, whatever ctx already
\* carries.
C12_SameHeaderBack ==
    \A r \in Requests :
        (chdr[r] # NilHeader /\ cgot[r] # << >>) =>
            /\ cgot[r][1].hdr = chdr[r]
            /\ ~cgot[r][1].panicked

\* A Header was attached to a context that already carried another Header,
\* and looked up.
C12_Witness ==
    \E r \in Requests :
        /\ chdr[r] # NilHeader
        /\ cgot[r] # << >>
        /\ Len(cctx[r]) = 2
        /\ cctx[r][1] = [key |-> HeaderCtxKey, val |-> OuterHeader]

\* C13: FromContext on a context with no Header attached returns nil and
\* does not panic.
C13_NotSetIsNil ==
    \A r \in Requests :
        (cgot[r] # << >> /\ ~HasHeader(cctx[r])) =>
            /\ cgot[r][1].hdr = NilHeader
            /\ ~cgot[r][1].panicked

\* A handler served without the middleware looked the Header up in a context
\* that carries only another package's value.
C13_Witness ==
    \E r \in Requests :
        /\ cgot[r] # << >>
        /\ chdr[r] = NilHeader
        /\ cctx[r] = <<[key |-> OtherCtxKey, val |-> OuterHeader]>>

\* ===================================================================
\* Codec: Header.String, Metric.String and ParseHeader on the header
\* cases of the tests.
\* ===================================================================

paramNameDesc == <<"d", "e", "s", "c">>
paramNameDur == <<"d", "u", "r">>

\* map[string]string operations; a nil map reads as empty.
MapKeys(mp) == IF mp.isNil THEN {} ELSE DOMAIN mp.kv
MapHas(mp, k) == k \in MapKeys(mp)
MapOf(k, v) == [isNil |-> FALSE, kv |-> (k :> v)]

\* strings.Join(parts, sep)
RECURSIVE Join(_, _)
Join(parts, sep) ==
    IF parts = << >> THEN << >>
    ELSE IF Len(parts) = 1 THEN parts[1]
    ELSE parts[1] \o sep \o Join(Tail(parts), sep)

\* strconv.Itoa
RECURSIVE ItoaNat(_)
ItoaNat(n) == IF n < 10 THEN <<Digits[n + 1]>> ELSE ItoaNat(n \div 10) \o <<Digits[(n % 10) + 1]>>
Itoa(n) == IF n < 0 THEN <<"-">> \o ItoaNat(0 - n) ELSE ItoaNat(n)

\* A value must be quoted when it holds whitespace, a comma, a semicolon
\* or a quote.
NeedsQuote(v) == \E i \in 1 .. Len(v) : v[i] \in {" ", ",", ";", "\""}

\* The quoted-string form: a backslash before every quote and backslash.
RECURSIVE Escape(_)
Escape(v) ==
    IF v = << >> THEN << >>
    ELSE (IF v[1] \in {"\"", "\\"} THEN <<"\\", v[1]>> ELSE <<v[1]>>) \o Escape(Tail(v))

\* headerEncodeParam(key, value): key=value, the value quoted when needed.
headerEncodeParam(key, value) ==
    key \o <<"=">> \o (IF NeedsQuote(value) THEN <<"\"">> \o Escape(value) \o <<"\"">> ELSE value)

\* The orders in which range m.Extra may visit the keys.
KeyOrders(mp) ==
    LET ks == MapKeys(mp)
    IN  {f \in [1 .. Cardinality(ks) -> ks] : \A i, j \in 1 .. Cardinality(ks) : i # j => f[i] # f[j]}

\* func (m *Metric) String() string, with the order range visits Extra in.
MetricString_noShadowCheck(m, ord) ==
    LET p0 == <<m.Name>>
        p1 == IF m.Desc # << >>
              THEN Append(p0, headerEncodeParam(paramNameDesc, m.Desc))
              ELSE p0
        p2 == IF m.Duration > 0
              THEN Append(p1, headerEncodeParam(paramNameDur, Itoa(m.Duration \div Millisecond)))
              ELSE p1
        p3 == p2 \o [i \in 1 .. Len(ord) |-> headerEncodeParam(ord[i], m.Extra.kv[ord[i]])]
    IN  Join(p3, <<";">>)
MetricString_extraFirst(m, ord) ==
    LET p0 == <<m.Name>> \o [i \in 1 .. Len(ord) |-> headerEncodeParam(ord[i], m.Extra.kv[ord[i]])]
        p1 == IF ~MapHas(m.Extra, paramNameDesc) /\ m.Desc # << >>
              THEN Append(p0, headerEncodeParam(paramNameDesc, m.Desc))
              ELSE p0
        p2 == IF ~MapHas(m.Extra, paramNameDur) /\ m.Duration > 0
              THEN Append(p1, headerEncodeParam(paramNameDur, Itoa(m.Duration \div Millisecond)))
              ELSE p1
    IN  Join(p2, <<";">>)
MetricString(m, ord) ==
    LET p0 == <<m.Name>>
        p1 == IF ~MapHas(m.Extra, paramNameDesc) /\ m.Desc # << >>
              THEN Append(p0, headerEncodeParam(paramNameDesc, m.Desc))
              ELSE p0
        p2 == IF ~MapHas(m.Extra, paramNameDur) /\ m.Duration > 0
              THEN Append(p1, headerEncodeParam(paramNameDur, Itoa(m.Duration \div Millisecond)))
              ELSE p1
        p3 == p2 \o [i \in 1 .. Len(ord) |-> headerEncodeParam(ord[i], m.Extra.kv[ord[i]])]
    IN  Join(p3, <<";">>)

\* The texts a metric list may encode to: the metrics' encodings, in list
\* order, joined by a comma.
RECURSIVE JoinedEncodings(_)
JoinedEncodings(ms) ==
    IF ms = << >> THEN {<< >>}
    ELSE LET heads == {MetricString(ms[1], ord) : ord \in KeyOrders(ms[1].Extra)}
         IN  IF Len(ms) = 1 THEN heads
             ELSE {x \o <<",">> \o y : x \in heads, y \in JoinedEncodings(Tail(ms))}

\* h.Add(m)
HeaderAdd(list, m) == Append(list, m)

\* headerCases: the metrics of the header tests, and one with a name only
\* and one with an extra parameter.
CaseMetric(desc, dur) ==
    [ZeroMetric EXCEPT !.Name = <<"s", "q", "l", "-", "1">>, !.Duration = dur, !.Desc = desc,
                       !.Extra = EmptyMap]
DescPlain ==
    <<"M", "y", "S", "Q", "L", " ", "l", "o", "o", "k", "u", "p", " ", "S", "e", "r", "v",
      "e", "r">>
DescComma ==
    <<"M", "y", "S", "Q", "L", ",", " ", "l", "o", "o", "k", "u", "p", " ", "S", "e", "r",
      "v", "e", "r">>
DescSemicolon ==
    <<"M", "y", "S", "Q", "L", ";", " ", "l", "o", "o", "k", "u", "p", " ", "S", "e", "r",
      "v", "e", "r">>
DescNumber ==
    <<"G", "E", "T", " ", "2", "0", "0">>
CasePlain == CaseMetric(DescPlain, 100 * Millisecond)
CaseComma == CaseMetric(DescComma, 100 * Millisecond)
CaseSemicolon == CaseMetric(DescSemicolon, 100 * Millisecond)
CaseNumber == CaseMetric(DescNumber, 100 * Millisecond)
CaseFraction == CaseMetric(DescSemicolon, 100100 * Microsecond)
CaseNameOnly == [ZeroMetric EXCEPT !.Name = <<"a">>]
CaseExtra == [ZeroMetric EXCEPT !.Name = <<"b">>, !.Extra = MapOf(<<"k">>, <<"v">>)]

\* Metrics whose values are all tokens, and metrics whose Extra holds a
\* reserved name next to the field of that name.
CaseToken ==
    [ZeroMetric EXCEPT !.Name = <<"t">>, !.Duration = 5 * Millisecond, !.Desc = <<"x">>,
                       !.Extra = MapOf(<<"k">>, <<"v">>)]
CaseShadowDesc ==
    [ZeroMetric EXCEPT !.Name = <<"c">>, !.Desc = <<"x">>, !.Extra = MapOf(paramNameDesc, <<"y">>)]
CaseShadowDur ==
    [ZeroMetric EXCEPT !.Name = <<"d">>, !.Duration = 100 * Millisecond,
                       !.Extra = MapOf(paramNameDur, <<"7">>)]
\* A metric whose Extra holds two entries: range visits them in either order.
CaseTwoExtra ==
    [ZeroMetric EXCEPT !.Name = <<"e">>,
                       !.Extra = [isNil |-> FALSE, kv |-> (<<"a">> :> <<"1">>) @@ (<<"b">> :> <<"2">>)]]
\* Metrics whose Duration is negative, and positive but under a millisecond.
CaseNegative == [ZeroMetric EXCEPT !.Name = <<"n">>, !.Duration = (0 - 5) * Millisecond]
CaseSubMillisecond == [ZeroMetric EXCEPT !.Name = <<"u">>, !.Duration = 500 * Microsecond]
HeaderCaseMetrics ==
    {CasePlain, CaseComma, CaseSemicolon, CaseNumber, CaseFraction, CaseNameOnly, CaseExtra,
     CaseToken, CaseShadowDesc, CaseShadowDur, CaseTwoExtra, CaseNegative, CaseSubMillisecond}

\* `sql-1;desc="MySQL lookup Server";dur=100`
CasePlainValue ==
    <<"s", "q", "l", "-", "1", ";", "d", "e", "s", "c", "=", "\"", "M", "y", "S", "Q", "L",
      " ", "l", "o", "o", "k", "u", "p", " ", "S", "e", "r", "v", "e", "r", "\"", ";",
      "d", "u", "r", "=", "1", "0", "0">>

\* `sql-1;desc="MySQL, lookup Server";dur=100`
CaseCommaValue ==
    <<"s", "q", "l", "-", "1", ";", "d", "e", "s", "c", "=", "\"", "M", "y", "S", "Q", "L",
      ",", " ", "l", "o", "o", "k", "u", "p", " ", "S", "e", "r", "v", "e", "r", "\"",
      ";", "d", "u", "r", "=", "1", "0", "0">>
\* `sql-1;desc="MySQL; lookup Server";dur=100`
CaseSemicolonValue ==
    <<"s", "q", "l", "-", "1", ";", "d", "e", "s", "c", "=", "\"", "M", "y", "S", "Q", "L",
      ";", " ", "l", "o", "o", "k", "u", "p", " ", "S", "e", "r", "v", "e", "r", "\"",
      ";", "d", "u", "r", "=", "1", "0", "0">>
\* `sql-1;desc="GET 200";dur=100`
CaseNumberValue ==
    <<"s", "q", "l", "-", "1", ";", "d", "e", "s", "c", "=", "\"", "G", "E", "T", " ", "2",
      "0", "0", "\"", ";", "d", "u", "r", "=", "1", "0", "0">>
\* `sql-1;desc="MySQL; lookup Server";dur=100.1`
CaseFractionValue ==
    <<"s", "q", "l", "-", "1", ";", "d", "e", "s", "c", "=", "\"", "M", "y", "S", "Q", "L",
      ";", " ", "l", "o", "o", "k", "u", "p", " ", "S", "e", "r", "v", "e", "r", "\"",
      ";", "d", "u", "r", "=", "1", "0", "0", ".", "1">>
HeaderCaseValues ==
    {CasePlainValue, CaseCommaValue, CaseSemicolonValue, CaseNumberValue, CaseFractionValue}

\* Header values beyond the header cases. One whose first metric has a dur
\* that is no number: `a;dur=abc;k=v,sql-1;desc="GET 200";dur=100`
BadDurValue ==
    <<"a", ";", "d", "u", "r", "=", "a", "b", "c", ";", "k", "=", "v", ",", "s", "q", "l",
      "-", "1", ";", "d", "e", "s", "c", "=", "\"", "G", "E", "T", " ", "2", "0", "0",
      "\"", ";", "d", "u", "r", "=", "1", "0", "0">>
\* One with a quote that is never closed: `sql-1;desc="MySQL`
UnterminatedValue ==
    <<"s", "q", "l", "-", "1", ";", "d", "e", "s", "c", "=", "\"", "M", "y", "S", "Q", "L">>
\* The empty string, and values of separators and whitespace only.
EmptyValues == {<< >>, <<" ">>, <<",">>, <<" ", ",", " ">>}
ParseInputs == HeaderCaseValues \cup {BadDurValue, UnterminatedValue} \cup EmptyValues

\* ---------------------------------------------------------------- parsing
IsSpace(c) == c \in {" ", "\t"}

RECURSIVE TrimLeft(_)
TrimLeft(v) == IF v # << >> /\ IsSpace(v[1]) THEN TrimLeft(Tail(v)) ELSE v
RECURSIVE TrimRight(_)
TrimRight(v) ==
    IF v # << >> /\ IsSpace(v[Len(v)]) THEN TrimRight(SubSeq(v, 1, Len(v) - 1)) ELSE v
Trim(v) == TrimRight(TrimLeft(v))

\* Split v at every sep that stands outside a quoted-string. A quote after
\* an odd run of backslashes is an escaped character, not a quote mark.
BackslashRun(v, j) ==
    LET runs == {k \in 0 .. (j - 1) : \A x \in (j - k) .. (j - 1) : v[x] = "\\"}
    IN  CHOOSE k \in runs : \A x \in runs : x <= k
QuoteMarks(v) == {j \in 1 .. Len(v) : v[j] = "\"" /\ BackslashRun(v, j) % 2 = 0}
InQuote(v, i) == Cardinality({j \in QuoteMarks(v) : j < i}) % 2 = 1
Cuts(v, sep) == {i \in 1 .. Len(v) : v[i] = sep /\ ~InQuote(v, i)}
Split(v, sep) ==
    LET cuts == Cuts(v, sep)
        n == Cardinality(cuts)
        cut(k) == CHOOSE i \in cuts : Cardinality({j \in cuts : j < i}) = k - 1
    IN  [k \in 1 .. (n + 1) |->
            SubSeq(v, IF k = 1 THEN 1 ELSE cut(k - 1) + 1, IF k = n + 1 THEN Len(v) ELSE cut(k) - 1)]

\* The value of a quoted-string: the quotes removed, each backslash pair
\* reduced to its second character.
RECURSIVE Unescape(_)
Unescape(v) ==
    IF v = << >> THEN << >>
    ELSE IF v[1] = "\\" /\ Len(v) >= 2 THEN <<v[2]>> \o Unescape(SubSeq(v, 3, Len(v)))
    ELSE <<v[1]>> \o Unescape(Tail(v))
Unquote(v) ==
    IF Len(v) >= 2 /\ v[1] = "\"" /\ v[Len(v)] = "\""
    THEN Unescape(SubSeq(v, 2, Len(v) - 1))
    ELSE v

\* header.ParseList: the elements of the comma-separated list, trimmed, the
\* empty ones dropped.
ParseList_keepEmpty(v) ==
    LET parts == Split(v, ",")
    IN  [i \in 1 .. Len(parts) |-> Trim(parts[i])]
ParseList(v) ==
    LET parts == Split(v, ",")
        trimmed == [i \in 1 .. Len(parts) |-> Trim(parts[i])]
    IN  SelectSeq(trimmed, LAMBDA e : e # << >>)

\* One name=value parameter: the name, and the value as a token or as the
\* value of a quoted-string.
IndexOf(v, c) ==
    LET at == {i \in 1 .. Len(v) : v[i] = c}
    IN  IF at = {} THEN 0 ELSE CHOOSE i \in at : \A j \in at : i <= j
ParamName(p) == IF IndexOf(p, "=") = 0 THEN Trim(p) ELSE Trim(SubSeq(p, 1, IndexOf(p, "=") - 1))
ParamValue(p) ==
    IF IndexOf(p, "=") = 0 THEN << >> ELSE Unquote(Trim(SubSeq(p, IndexOf(p, "=") + 1, Len(p))))

\* The parameters as a map; a later parameter of the same name wins.
RECURSIVE ParamsMap(_)
ParamsMap(ps) ==
    IF ps = << >> THEN << >>
    ELSE LET rest == ParamsMap(SubSeq(ps, 1, Len(ps) - 1))
             last == ps[Len(ps)]
         IN  IF ParamName(last) = << >> THEN rest
             ELSE [k \in (DOMAIN rest) \cup {ParamName(last)} |->
                      IF k = ParamName(last) THEN ParamValue(last) ELSE rest[k]]

\* header.ParseValueAndParams: the text before the first semicolon, and the
\* parameters after it.
ParseValueAndParams(raw) ==
    LET parts == Split(raw, ";")
    IN  [value |-> Trim(parts[1]),
         params |-> [isNil |-> FALSE, kv |-> ParamsMap(Tail(parts))]]

\* delete(m, k)
MapDelete(mp, k) == [mp EXCEPT !.kv = [x \in (DOMAIN mp.kv) \ {k} |-> mp.kv[x]]]

\* strconv.Atoi: an optional sign and at least one digit, nothing else.
DigitValue(c) == CHOOSE d \in 0 .. 9 : Digits[d + 1] = c
IsDigit(c) == \E d \in 0 .. 9 : Digits[d + 1] = c
RECURSIVE DigitsValue(_)
DigitsValue(v) ==
    IF v = << >> THEN 0 ELSE DigitsValue(SubSeq(v, 1, Len(v) - 1)) * 10 + DigitValue(v[Len(v)])
Atoi(v) ==
    LET signed == v # << >> /\ v[1] \in {"+", "-"}
        ds == IF signed THEN Tail(v) ELSE v
    IN  IF ds # << >> /\ \A i \in 1 .. Len(ds) : IsDigit(ds[i])
        THEN [ok |-> TRUE, val |-> IF signed /\ v[1] = "-" THEN 0 - DigitsValue(ds) ELSE DigitsValue(ds)]
        ELSE [ok |-> FALSE, val |-> 0]

\* The body of ParseHeader's loop: one raw element to one Metric.
ParseMetric_dropBadDur(raw) ==
    LET vp == ParseValueAndParams(raw)
        m0 == [ZeroMetric EXCEPT !.Name = vp.value, !.Extra = vp.params]
        m1 == IF MapHas(m0.Extra, paramNameDesc)
              THEN [m0 EXCEPT !.Desc = m0.Extra.kv[paramNameDesc],
                              !.Extra = MapDelete(m0.Extra, paramNameDesc)]
              ELSE m0
        dur == IF MapHas(m1.Extra, paramNameDur) THEN Atoi(m1.Extra.kv[paramNameDur])
               ELSE [ok |-> FALSE, val |-> 0]
    IN  [m1 EXCEPT !.Duration = dur.val * Millisecond, !.Extra = MapDelete(m1.Extra, paramNameDur)]
ParseMetric(raw) ==
    LET vp == ParseValueAndParams(raw)
        m0 == [ZeroMetric EXCEPT !.Name = vp.value, !.Extra = vp.params]
        m1 == IF MapHas(m0.Extra, paramNameDesc)
              THEN [m0 EXCEPT !.Desc = m0.Extra.kv[paramNameDesc],
                              !.Extra = MapDelete(m0.Extra, paramNameDesc)]
              ELSE m0
        dur == IF MapHas(m1.Extra, paramNameDur) THEN Atoi(m1.Extra.kv[paramNameDur])
               ELSE [ok |-> FALSE, val |-> 0]
    IN  IF dur.ok
        THEN [m1 EXCEPT !.Duration = dur.val * Millisecond, !.Extra = MapDelete(m1.Extra, paramNameDur)]
        ELSE m1

\* func ParseHeader(input string) (*Header, error): whether the *Header is
\* nil, its metrics, and whether the error is nil.
ParseHeader(input) ==
    LET rawMetrics == ParseList(input)
    IN  [hdrNil |-> FALSE,
         Metrics |-> [i \in 1 .. Len(rawMetrics) |-> ParseMetric(rawMetrics[i])],
         errNil |-> TRUE]

\* ----------------------------------------------------------------- tests
\* The lists of at most MaxMetrics metrics.
RECURSIVE ListsUpTo(_)
ListsUpTo(n) ==
    IF n = 0 THEN {<< >>}
    ELSE ListsUpTo(n - 1) \cup
         {Append(l, m) : l \in {x \in ListsUpTo(n - 1) : Len(x) = n - 1}, m \in HeaderCaseMetrics}

InitCodec ==
    /\ NoRequest
    /\ metric = [i \in MetricIds |-> ZeroMetric]
    /\ now = Millisecond
    /\ NoMetricCalls
    /\ NoContext
    /\ NoExample
    /\ NoRace
    /\ NoPanic
    /\ hm = << >>
    /\ str = << >>
    /\ parsed = << >>
    /\ cphase = "new"
    /\ hhow = "none"
    /\ addlog = << >>

codecFrame == UNCHANGED <<reqVars, metric, now, metVars, ctxVars, exVars, raceVars, panicVars>>

\* h := &Header{Metrics: tt.Metrics}
HeaderAssign(list) ==
    /\ cphase = "new"
    /\ hm' = list
    /\ hhow' = "assigned"
    /\ cphase' = "built"
    /\ UNCHANGED <<str, parsed, addlog>>
    /\ codecFrame

\* var h Header; h.Add(m), once per metric
HeaderAddCall(m) ==
    /\ cphase \in {"new", "adding"}
    /\ Len(hm) < MaxMetrics
    /\ hm' = HeaderAdd(hm, m)
    /\ addlog' = Append(addlog, m)
    /\ hhow' = "added"
    /\ cphase' = "adding"
    /\ UNCHANGED <<str, parsed>>
    /\ codecFrame

\* actual := h.String()
HeaderStringCall ==
    /\ cphase \in {"built", "adding"}
    /\ str' = HeaderString(hm)
    /\ cphase' = "serialized"
    /\ UNCHANGED <<hm, parsed, hhow, addlog>>
    /\ codecFrame

\* m.String() on the one metric of the list, range visiting Extra in any
\* order.
MetricStringCall ==
    /\ cphase = "built"
    /\ Len(hm) = 1
    /\ \E ord \in KeyOrders(hm[1].Extra) : str' = MetricString(hm[1], ord)
    /\ hhow' = "metric"
    /\ cphase' = "mserialized"
    /\ UNCHANGED <<hm, parsed, addlog>>
    /\ codecFrame

\* m.String() once more, on the same metric
MetricStringAgain ==
    /\ cphase = "mserialized"
    /\ \E ord \in KeyOrders(hm[1].Extra) : str' = MetricString(hm[1], ord)
    /\ UNCHANGED <<hm, parsed, cphase, hhow, addlog>>
    /\ codecFrame

\* ParseHeader of the text h.String() or m.String() returned
ParseSerialized ==
    /\ cphase \in {"serialized", "mserialized"}
    /\ parsed' = <<ParseHeader(str)>>
    /\ cphase' = "parsed"
    /\ UNCHANGED <<hm, str, hhow, addlog>>
    /\ codecFrame

\* h, err := ParseHeader(tt.HeaderValue)
ParseCase(text) ==
    /\ cphase = "new"
    /\ str' = text
    /\ parsed' = <<ParseHeader(text)>>
    /\ hhow' = "text"
    /\ cphase' = "parsed"
    /\ UNCHANGED <<hm, addlog>>
    /\ codecFrame

NextCodec ==
    \/ \E list \in ListsUpTo(MaxMetrics) : HeaderAssign(list)
    \/ \E m \in HeaderCaseMetrics : HeaderAddCall(m)
    \/ HeaderStringCall
    \/ MetricStringCall
    \/ MetricStringAgain
    \/ ParseSerialized
    \/ \E text \in ParseInputs : ParseCase(text)

SpecCodec == InitCodec /\ [][NextCodec]_vars

\* h.String() has returned for a list built by assignment or by Add.
Serialized == cphase \in {"serialized", "parsed"} /\ hhow \in {"assigned", "added"}

\* m.String() has returned for the one metric hm[1].
MetricSerialized == cphase \in {"mserialized", "parsed"} /\ hhow = "metric"

\* C19: Header.String() of a non-empty list is the metrics' encodings (name,
\* then desc if set, then dur in milliseconds if set, then the extra
\* parameters) joined by a comma in list order, the same for a list that was
\* assigned and one built by Add; the metric sql-1, 100ms, "MySQL lookup
\* Server" gives sql-1;desc="MySQL lookup Server";dur=100.
C19_StringJoinsEncodings ==
    (Serialized /\ hm # << >>) =>
        /\ str \in JoinedEncodings(hm)
        /\ hm = <<CasePlain>> => str = CasePlainValue

\* C20: a description with a comma, a semicolon or whitespace is serialized
\* in double quotes, and ParseHeader of the serialized text yields exactly
\* one metric, with that very description.
C20_QuotedDescRoundTrip ==
    (/\ Serialized
     /\ Len(hm) = 1
     /\ \E i \in 1 .. Len(hm[1].Desc) : hm[1].Desc[i] \in {",", ";", " "})
    => /\ Contains(<<"\"">> \o hm[1].Desc \o <<"\"">>, str)
       /\ cphase = "parsed" =>
             /\ Len(parsed[1].Metrics) = 1
             /\ parsed[1].Metrics[1].Desc = hm[1].Desc

\* The header cases parse to their metrics: TestParseHeader.
ParseCaseOK ==
    (cphase = "parsed" /\ hhow = "text") =>
        /\ str = CasePlainValue => parsed[1].Metrics = <<CasePlain>>
        /\ str = CaseCommaValue => parsed[1].Metrics = <<CaseComma>>
        /\ str = CaseSemicolonValue => parsed[1].Metrics = <<CaseSemicolon>>
        /\ str = CaseNumberValue => parsed[1].Metrics = <<CaseNumber>>

\* Metric.String of the header cases is the text the tests expect.
MetricStringOK ==
    /\ MetricString(CasePlain, << >>) = CasePlainValue
    /\ MetricString(CaseComma, << >>) = CaseCommaValue
    /\ MetricString(CaseSemicolon, << >>) = CaseSemicolonValue
    /\ MetricString(CaseNumber, << >>) = CaseNumberValue
    /\ MetricString(CaseNameOnly, << >>) = <<"a">>
    /\ MetricString(CaseExtra, <<(<<"k">>)>>) = <<"b", ";", "k", "=", "v">>

\* A metric whose name, description and extra parameters need no quoting.
NoQuoting(m) ==
    /\ ~NeedsQuote(m.Name)
    /\ ~NeedsQuote(m.Desc)
    /\ \A k \in MapKeys(m.Extra) : ~NeedsQuote(k) /\ ~NeedsQuote(m.Extra.kv[k])

\* Two metrics with the same name, description, duration and parameters (a
\* nil map holds the same parameters as an empty one).
SameMetric(a, b) ==
    /\ a.Name = b.Name
    /\ a.Desc = b.Desc
    /\ a.Duration = b.Duration
    /\ MapKeys(a.Extra) = MapKeys(b.Extra)
    /\ \A k \in MapKeys(a.Extra) : a.Extra.kv[k] = b.Extra.kv[k]

\* C21: for a Header built from values that need no quoting,
\* serialize(parse(serialize(h))) is serialize(h), and parse(serialize(h))
\* has the same metrics as h in the same order.
C21_RoundTrip ==
    (Serialized /\ cphase = "parsed" /\ \A i \in 1 .. Len(hm) : NoQuoting(hm[i])) =>
        /\ HeaderString(parsed[1].Metrics) = str
        /\ Len(parsed[1].Metrics) = Len(hm)
        /\ \A i \in 1 .. Len(hm) : SameMetric(parsed[1].Metrics[i], hm[i])

\* A duration in milliseconds as the header tests write it: the whole
\* milliseconds, then, when there is a fraction, a point and the fraction's
\* digits with no trailing zero (100ms is 100, 100100us is 100.1).
RECURSIVE StripZeros(_)
StripZeros(v) ==
    IF v # << >> /\ v[Len(v)] = "0" THEN StripZeros(SubSeq(v, 1, Len(v) - 1)) ELSE v
FractionDigits(ns) ==
    StripZeros([i \in 1 .. 6 |-> Digits[((ns \div (10 ^ (6 - i))) % 10) + 1]])
ExactMilliseconds(d) ==
    Itoa(d \div Millisecond)
        \o (IF d % Millisecond = 0 THEN << >> ELSE <<".">> \o FractionDigits(d % Millisecond))

\* The text holds the parameter key=value, the value ending where the
\* parameter ends.
HasParam(text, key, value) ==
    Contains(<<";">> \o key \o <<"=">> \o value \o <<";">>, text \o <<";">>)

\* C22: the duration of a metric is written exactly, in milliseconds: whole
\* milliseconds as the integer, a fraction as a minimal decimal, never cut
\* down to the integer part; by Header.String and by Metric.String.
C22_ExactDuration ==
    (/\ Serialized \/ MetricSerialized
     /\ Len(hm) = 1
     /\ hm[1].Duration > 0
     /\ ~MapHas(hm[1].Extra, paramNameDur))
    => HasParam(str, paramNameDur, ExactMilliseconds(hm[1].Duration))

\* ParseHeader has returned for a text given to it directly.
ParsedText == cphase = "parsed" /\ hhow = "text"

\* C23: ParseHeader of sql-1;desc="MySQL; lookup Server";dur=100.1 yields
\* one metric with Duration 100100 microseconds and no dur left in Extra:
\* the metric that header case serializes from.
C23_FractionalDurParsed ==
    (ParsedText /\ str = CaseFractionValue) =>
        /\ Len(parsed[1].Metrics) = 1
        /\ parsed[1].Metrics[1].Duration = 100100 * Microsecond
        /\ ~MapHas(parsed[1].Metrics[1].Extra, paramNameDur)
        /\ parsed[1].Metrics = <<CaseFraction>>

\* A number: an optional sign, digits, and optionally a point and digits.
IsNumber(v) ==
    LET signed == v # << >> /\ v[1] \in {"+", "-"}
        ds == IF signed THEN Tail(v) ELSE v
        dot == IndexOf(ds, ".")
        whole == IF dot = 0 THEN ds ELSE SubSeq(ds, 1, dot - 1)
        frac == IF dot = 0 THEN <<"0">> ELSE SubSeq(ds, dot + 1, Len(ds))
    IN  /\ whole # << >> /\ \A i \in 1 .. Len(whole) : IsDigit(whole[i])
        /\ frac # << >> /\ \A i \in 1 .. Len(frac) : IsDigit(frac[i])

\* The name and the parameters of the i-th element of the list, as written.
RawMetric(text, i) == ParseValueAndParams(ParseList(text)[i])

\* C24: a dur value that is no number is tolerated: ParseHeader returns no
\* error, that metric's Duration stays 0 and the value stays in Extra under
\* dur as written, and every other parameter and metric of the header value
\* is parsed as usual.
C24_BadDurTolerated ==
    ParsedText =>
        /\ parsed[1].errNil
        /\ Len(parsed[1].Metrics) = Len(ParseList(str))
        /\ \A i \in 1 .. Len(parsed[1].Metrics) :
              LET m == parsed[1].Metrics[i]
                  raw == RawMetric(str, i)
              IN  (MapHas(raw.params, paramNameDur) /\ ~IsNumber(raw.params.kv[paramNameDur])) =>
                      /\ m.Duration = 0
                      /\ MapHas(m.Extra, paramNameDur)
                      /\ m.Extra.kv[paramNameDur] = raw.params.kv[paramNameDur]
                      /\ m.Name = raw.value
                      /\ \A k \in MapKeys(raw.params) \ {paramNameDesc} :
                             MapHas(m.Extra, k) /\ m.Extra.kv[k] = raw.params.kv[k]
        /\ str = BadDurValue =>
              /\ parsed[1].Metrics[1].Extra.kv = (paramNameDur :> <<"a", "b", "c">>) @@ (<<"k">> :> <<"v">>)
              /\ parsed[1].Metrics[2] = CaseNumber

\* A header value whose first metric has dur=abc has been parsed.
C24_Witness == ParsedText /\ str = BadDurValue /\ Len(parsed[1].Metrics) = 2

\* The values the text gives to the parameter key, one per occurrence.
ParamsNamed(text, key) ==
    LET parts == Split(text, ";")
    IN  SelectSeq([i \in 1 .. (Len(parts) - 1) |-> parts[i + 1]], LAMBDA p : ParamName(p) = key)

\* C25: the text of a metric holds at most one desc and at most one dur
\* parameter; when Extra holds desc (or dur), the Desc (or Duration) field is
\* not written and the parameter carries the Extra entry's value.
C25_ReservedNameShadowing ==
    MetricSerialized =>
        \A key \in {paramNameDesc, paramNameDur} :
            /\ Len(ParamsNamed(str, key)) <= 1
            /\ MapHas(hm[1].Extra, key) =>
                  /\ Len(ParamsNamed(str, key)) = 1
                  /\ ParamValue(ParamsNamed(str, key)[1]) = hm[1].Extra.kv[key]

\* m.String() has returned for a metric with Desc set and desc in Extra.
C25_Witness ==
    /\ MetricSerialized
    /\ MapHas(hm[1].Extra, paramNameDesc)
    /\ hm[1].Desc # << >>
    /\ hm[1].Desc # hm[1].Extra.kv[paramNameDesc]

\* A quote is opened and never closed.
UnterminatedQuote(text) == Cardinality(QuoteMarks(text)) % 2 = 1

\* C26: ParseHeader of a structurally malformed header value, such as one
\* with an unterminated quote, returns a non-nil error and no Header, never
\* a metric list with a nil error.
C26_MalformedIsError ==
    (ParsedText /\ UnterminatedQuote(str)) =>
        /\ ~parsed[1].errNil
        /\ parsed[1].hdrNil

\* Nothing but separators and whitespace.
SemanticallyEmpty(text) == \A i \in 1 .. Len(text) : text[i] = "," \/ IsSpace(text[i])

\* C27: ParseHeader of a semantically empty input returns a non-nil Header
\* with no metrics, and a nil error.
C27_EmptyInput ==
    (ParsedText /\ SemanticallyEmpty(str)) =>
        /\ ~parsed[1].hdrNil
        /\ Len(parsed[1].Metrics) = 0
        /\ parsed[1].errNil

\* A value of a comma between blanks has been parsed.
C27_Witness == ParsedText /\ str = <<" ", ",", " ">>

\* C28: after any sequence of Add calls the list holds the metrics in the
\* order of the calls, none moved or removed, and Header.String() writes
\* them in that order.
C28_InsertionOrderIsWireOrder ==
    hhow = "added" =>
        /\ hm = addlog
        /\ Serialized => str \in JoinedEncodings(addlog)

\* C29: no metric ParseHeader returns has desc in Extra; it has dur in
\* Extra only when that value is no number; and a metric written with only
\* a name, a desc and a numeric dur has an empty, non-nil Extra.
C29_ReservedNamesMoved ==
    cphase = "parsed" =>
        \A i \in 1 .. Len(parsed[1].Metrics) :
            LET m == parsed[1].Metrics[i]
                raw == RawMetric(str, i)
            IN  /\ ~MapHas(m.Extra, paramNameDesc)
                /\ MapHas(m.Extra, paramNameDur) => ~IsNumber(m.Extra.kv[paramNameDur])
                /\ (/\ MapKeys(raw.params) \subseteq {paramNameDesc, paramNameDur}
                    /\ MapHas(raw.params, paramNameDur) => IsNumber(raw.params.kv[paramNameDur]))
                   => m.Extra = EmptyMap

\* ===================================================================
\* The example handler, statement by statement: it spawns the workers,
\* times its own sql metric, waits for the workers, then writes the status
\* and the body.
\* ===================================================================

\* The handler's own metric: the pointer m and its name and description.
SqlMetric == 0
SqlName == <<"s", "q", "l">>
SqlDesc == <<"S", "Q", "L", " ", "q", "u", "e", "r", "y">>

InitExample ==
    /\ opts = NilOpts
    /\ useWorkers = TRUE
    /\ Metrics = << >>
    /\ mu = 0
    /\ metric = [i \in MetricIds |-> ZeroMetric]
    /\ wpc = [w \in Workers |-> "new"]
    /\ wtmp = [w \in Workers |-> << >>]
    /\ now = Millisecond
    /\ hpc = "run"
    /\ pending = << >>
    /\ ops = 0
    /\ joined = FALSE
    /\ headerWritten = FALSE
    /\ headers = EmptyHeaders
    /\ wroteHeader = FALSE
    /\ status = 0
    /\ body = << >>
    /\ sent = EmptyHeaders
    /\ calls = << >>
    /\ injections = 0
    /\ commitSnap = << >>
    /\ NoMetricCalls
    /\ NoContext
    /\ NoCodec
    /\ hsql = "new"
    /\ NoRace
    /\ NoPanic

\* m := timing.NewMetric("sql").WithDesc("SQL query").Start(): NewMetric
\* appends under the Header's lock.
ExampleSqlStart ==
    /\ hpc = "run"
    /\ hsql = "new"
    /\ CanLock(mu)
    /\ Metrics' = Append(Metrics, SqlMetric)
    /\ metric' = [metric EXCEPT ![SqlMetric] =
                     MetricStart([NewMetricValue(SqlName) EXCEPT !.Desc = SqlDesc], now)]
    /\ hsql' = "started"
    /\ UNCHANGED <<opts, useWorkers, mu, wpc, wtmp, now, hpc, pending, ops, joined, headerWritten,
                   calls, injections>>
    /\ UNCHANGED respVars
    /\ UNCHANGED <<metVars, ctxVars, codecVars, raceVars, panicVars>>

\* time.Sleep(random(20, 50)); m.Stop()
ExampleSqlStop(d) ==
    /\ hpc = "run"
    /\ hsql = "started"
    /\ now' = now + d
    /\ metric' = [metric EXCEPT ![SqlMetric] = MetricStop(metric[SqlMetric], now + d)]
    /\ hsql' = "done"
    /\ UNCHANGED <<opts, useWorkers, Metrics, mu, wpc, wtmp, hpc, pending, ops, joined,
                   headerWritten, calls, injections>>
    /\ UNCHANGED respVars
    /\ UNCHANGED <<metVars, ctxVars, codecVars, raceVars, panicVars>>

\* wg.Wait()
ExampleWait ==
    /\ hsql = "done"
    /\ HandlerWait

\* w.WriteHeader(200)
ExampleWriteHeader ==
    /\ joined
    /\ ops = 0
    /\ HandlerWriteHeader(StatusOK)

\* w.Write([]byte("Done. ..."))
ExampleWrite ==
    /\ ops = 1
    /\ \E b \in Payloads(calls) : HandlerWrite(b)

\* The handler returns.
ExampleReturn ==
    /\ ops = 2
    /\ HandlerReturn

NextExample ==
    \/ \E w \in Workers : WorkerNewMetric(w)
    \/ \E w \in Workers : WorkerAppend(w)
    \/ \E w \in Workers, d \in SleepTimes : WorkerDone(w, d)
    \/ \E w \in Workers : WorkerStop(w)
    \/ ExampleSqlStart
    \/ \E d \in SleepTimes : ExampleSqlStop(d)
    \/ ExampleWait
    \/ ExampleWriteHeader
    \/ OriginalWriteHeader
    \/ ExampleWrite
    \/ OriginalWrite
    \/ ExampleReturn

SpecExample == InitExample /\ [][NextExample]_vars

\* Every metric of the list at the commit had been stopped.
AllStoppedAtCommit == \A i \in 1 .. Len(commitSnap) : commitSnap[i].stopped

\* C30: when the example handler commits with WriteHeader(200), after
\* wg.Wait() has returned, every service-N metric and the sql metric has
\* been stopped and is in the transmitted header with the duration it
\* recorded, whatever the interleaving of the workers.
C30_AllStoppedAndTransmitted ==
    wroteHeader =>
        /\ Len(commitSnap) = NumWorkers + 1
        /\ AllStoppedAtCommit
        /\ \A i \in 1 .. Len(commitSnap) :
              /\ commitSnap[i].Duration > 0
              /\ Contains(MetricString(commitSnap[i], << >>), HeaderGet(sent, HeaderKey))

\* A worker is inside NewMetric, between its read of the list and its store.
AppendHalfDone(w) == wpc[w] = "append"

\* A worker's Stop on a metric of the list is its next statement: it writes
\* Duration holding no lock, so nothing orders it with a step taken now.
StopPending(w) == wpc[w] = "stop" /\ \E i \in 1 .. Len(Metrics) : Metrics[i] = w

WriterCallsOf(k) ==
    {[op |-> "WriteHeader", arg |-> responseStatus], [op |-> "Write", arg |-> <<Chunks[k]>>]}

InitRace ==
    /\ opts = NilOpts
    /\ useWorkers = TRUE
    /\ Metrics = <<0>>
    /\ mu = 0
    /\ metric = [i \in MetricIds |-> IF i = 0 THEN TestMetric ELSE ZeroMetric]
    /\ wpc = [w \in Workers |-> "exit"]
    /\ wtmp = [w \in Workers |-> << >>]
    /\ now = Millisecond
    /\ hpc = "run"
    /\ pending = << >>
    /\ ops = 0
    /\ joined = FALSE
    /\ headerWritten = FALSE
    /\ headers = EmptyHeaders
    /\ wroteHeader = FALSE
    /\ status = 0
    /\ body = << >>
    /\ sent = EmptyHeaders
    /\ calls = << >>
    /\ injections = 0
    /\ commitSnap = << >>
    /\ NoMetricCalls
    /\ NoContext
    /\ NoCodec
    /\ NoExample
    /\ kpc = [w \in Workers |-> "call"]
    /\ kcall = [w \in Workers |-> << >>]
    /\ NoPanic

raceFrame == UNCHANGED <<opts, useWorkers, now, hpc, pending, ops, joined, hdrVars,
                         metVars, ctxVars, codecVars, exVars, panicVars>>

\* A goroutine calls w.WriteHeader(code) or w.Write(b): the hook is entered.
CommitterCall(k, c) ==
    /\ kpc[k] = "call"
    /\ kcall' = [kcall EXCEPT ![k] = c]
    /\ calls' = Append(calls, c)
    /\ kpc' = [kpc EXCEPT ![k] = "test"]
    /\ UNCHANGED <<headerWritten, injections>>
    /\ UNCHANGED respVars
    /\ raceFrame

\* The hook reads the latch.
CommitterTest(k) ==
    /\ kpc[k] = "test"
    /\ kpc' = [kpc EXCEPT ![k] =
                  IF (IF kcall[k].op = "Write"
                      THEN InjectOnWrite(headerWritten)
                      ELSE InjectOnWriteHeader(headerWritten))
                  THEN "inject" ELSE "original"]
    /\ UNCHANGED <<kcall, calls, headerWritten, injections>>
    /\ UNCHANGED respVars
    /\ raceFrame

\* writeHeader(headers, &h, opts), under the Header's lock.
CommitterInject(k) ==
    /\ kpc[k] = "inject"
    /\ CanLock(mu)
    /\ headers' = writeHeader(headers, Deref(Metrics, metric), opts)
    /\ injections' = injections + 1
    /\ kpc' = [kpc EXCEPT ![k] = "latch"]
    /\ UNCHANGED <<kcall, calls, headerWritten>>
    /\ UNCHANGED <<wroteHeader, status, body, sent, commitSnap>>
    /\ raceFrame

\* headerWritten = true
CommitterLatch(k) ==
    /\ kpc[k] = "latch"
    /\ headerWritten' = TRUE
    /\ kpc' = [kpc EXCEPT ![k] = "original"]
    /\ UNCHANGED <<kcall, calls, injections>>
    /\ UNCHANGED respVars
    /\ raceFrame

\* original(code) or original(b): the call is delegated to the underlying
\* writer, whose first commit fixes the status and the header set.
CommitterOriginal(k) ==
    /\ kpc[k] = "original"
    /\ IF kcall[k].op = "Write"
       THEN Commit(StatusOK) /\ body' = body \o kcall[k].arg
       ELSE Commit(kcall[k].arg) /\ UNCHANGED body
    /\ kpc' = [kpc EXCEPT ![k] = "done"]
    /\ UNCHANGED <<kcall, calls, headerWritten, injections, headers>>
    /\ raceFrame

NextRace ==
    \/ \E k \in Workers : \E c \in WriterCallsOf(k) : CommitterCall(k, c)
    \/ \E k \in Workers : CommitterTest(k)
    \/ \E k \in Workers : CommitterInject(k)
    \/ \E k \in Workers : CommitterLatch(k)
    \/ \E k \in Workers : CommitterOriginal(k)

SpecRace == InitRace /\ [][NextRace]_vars

Elements(value) == {ParseList(value)[j] : j \in 1 .. Len(ParseList(value))}

\* Started, and no Stop has recorded since.
Running(m) == m.startTime # 0 /\ ~m.stopped

\* C33: a metric that NewMetric has returned is in the list at once: when
\* the response commits while the metric is started and not yet stopped,
\* the transmitted header has an entry for it with its name (and its
\* description if set) and without a dur parameter, its Duration being 0.
C33_RunningMetricTransmitted ==
    wroteHeader =>
        \A i \in 1 .. Len(commitSnap) :
            Running(commitSnap[i]) =>
                /\ commitSnap[i].Duration = 0
                /\ MetricString(commitSnap[i], << >>) \in Elements(HeaderGet(sent, HeaderKey))
                /\ ~Contains(<<";">> \o paramNameDur \o <<"=">>, MetricString(commitSnap[i], << >>))

\* C34: the Metric NewMetric returned is the list's own entry, not a copy:
\* what WithDesc, Start and Stop did to the returned value is what
\* Header.String() emits for that entry from then on.
C34_ReturnedMetricIsListEntry ==
    \A i \in 1 .. Len(Metrics) :
        Metrics[i] = SqlMetric =>
            LET ms == Deref(Metrics, metric)
            IN  /\ ms[i].Name = SqlName
                /\ ms[i].Desc = SqlDesc
                /\ hsql = "started" => ms[i].Duration = 0
                /\ hsql = "done" => \E d \in SleepTimes : ms[i].Duration >= d
                /\ MetricString(ms[i], << >>) \in Elements(HeaderString(ms))

\* The Desc field, the Duration field are written: set, and not shadowed.
DescEmitted(m) == ~MapHas(m.Extra, paramNameDesc) /\ m.Desc # << >>
DurEmitted(m) == ~MapHas(m.Extra, paramNameDur) /\ m.Duration > 0

\* C35: in the text of one metric the name comes first; desc, when written
\* from the Desc field, is the first parameter; dur, when written from the
\* Duration field, follows desc at once, or the name when no desc is
\* written; every Extra parameter comes after both.
C35_ParameterOrder ==
    MetricSerialized =>
        LET m == hm[1]
            parts == Split(str, ";")
            nDesc == IF DescEmitted(m) THEN 1 ELSE 0
            nDur == IF DurEmitted(m) THEN 1 ELSE 0
        IN  /\ parts[1] = m.Name
            /\ Len(parts) = 1 + nDesc + nDur + Cardinality(MapKeys(m.Extra))
            /\ DescEmitted(m) => ParamName(parts[2]) = paramNameDesc
            /\ DurEmitted(m) => ParamName(parts[2 + nDesc]) = paramNameDur
            /\ \A k \in MapKeys(m.Extra) :
                   \E i \in (2 + nDesc + nDur) .. Len(parts) : ParamName(parts[i]) = k

\* A metric with a description, a duration and an extra parameter was
\* serialized.
C35_Witness ==
    /\ MetricSerialized
    /\ DescEmitted(hm[1])
    /\ DurEmitted(hm[1])
    /\ MapKeys(hm[1].Extra) # {}

\* C36: serializing the same metric again gives the same text, byte for
\* byte, also when its Extra map holds two or more entries.
C36_Deterministic ==
    [][(cphase = "mserialized" /\ cphase' = "mserialized" /\ hm' = hm) => str' = str]_vars

\* The text is a number other than zero: one of its digits is not 0.
NonZeroNumber(v) == IsNumber(v) /\ \E i \in 1 .. Len(v) : IsDigit(v[i]) /\ v[i] # "0"

\* C38: the Duration field gives a dur parameter only when it is strictly
\* positive: a zero or a negative Duration gives none, and every positive
\* Duration, one under a millisecond included, gives a dur that is not 0.
C38_DurOnlyWhenPositive ==
    (MetricSerialized /\ ~MapHas(hm[1].Extra, paramNameDur)) =>
        IF hm[1].Duration > 0
        THEN /\ Len(ParamsNamed(str, paramNameDur)) = 1
             /\ NonZeroNumber(ParamValue(ParamsNamed(str, paramNameDur)[1]))
        ELSE Len(ParamsNamed(str, paramNameDur)) = 0

\* ===================================================================
\* errorHandler.ServeHTTP: fn writes into a ResponseBuffer; its output is
\* copied to the response when it returns nil, an error response is written
\* when it returns an error or panics.
\* ===================================================================

\* The two error functions the server installs.
ErrFns == {"handleError", "handleAPIError"}

\* What eh.fn(rb, req) writes to: the buffer.
FnWriter_resp == "resp"
FnWriter == "rb"

\* The deferred function's `rv := recover(); rv != nil` after a panic.
Recovers == TRUE

\* The status and the body the error function writes for a status.
ErrStatus(f, st) ==
    IF f = "handleError"
    THEN IF st = StatusNotFound THEN StatusNotFound ELSE StatusInternalServerError
    ELSE st
ErrBody(f, st) ==
    IF f = "handleError"
    THEN IF st = StatusNotFound THEN <<"notfound page">> ELSE <<"Internal server error.">>
    ELSE IF st = StatusNotFound THEN <<"{Not Found}">> ELSE <<"{Internal Server Error}">>

\* How fn may end without panicking: the error it returns and the status
\* ServeHTTP passes to the error function for it.
FnEnds ==
    {[end |-> "nil", code |-> 0],
     [end |-> "httpError", code |-> StatusNotFound],
     [end |-> "httpError", code |-> StatusInternalServerError],
     [end |-> "notFound", code |-> StatusNotFound],
     [end |-> "other", code |-> StatusInternalServerError]}

InitPanic ==
    /\ NoRequest
    /\ metric = [i \in MetricIds |-> ZeroMetric]
    /\ now = Millisecond
    /\ NoMetricCalls
    /\ NoContext
    /\ NoCodec
    /\ NoExample
    /\ NoRace
    /\ eh \in [pc : {"fn"}, end : {"none"}, code : {0}, errFn : ErrFns]
    /\ rb = [status |-> 0, body |-> << >>]

panicFrame == UNCHANGED <<opts, useWorkers, now, hpc, pending, joined, headerWritten, calls,
                          injections, hdrVars, metVars, ctxVars, codecVars, exVars, raceVars>>

\* fn calls WriteHeader(code) on the writer it was given.
FnWriteHeader(code) ==
    /\ eh.pc = "fn"
    /\ ops < MaxOps
    /\ ops' = ops + 1
    /\ IF FnWriter = "rb"
       THEN rb' = [rb EXCEPT !.status = code] /\ UNCHANGED respVars
       ELSE Commit(code) /\ UNCHANGED <<headers, body, rb>>
    /\ UNCHANGED eh
    /\ panicFrame

\* fn calls Write(b) on the writer it was given.
FnWrite ==
    /\ eh.pc = "fn"
    /\ ops < MaxOps
    /\ ops' = ops + 1
    /\ LET b == <<Chunks[ops + 1]>>
       IN  IF FnWriter = "rb"
           THEN rb' = [rb EXCEPT !.body = @ \o b] /\ UNCHANGED respVars
           ELSE Commit(StatusOK) /\ body' = body \o b /\ UNCHANGED <<headers, rb>>
    /\ UNCHANGED eh
    /\ panicFrame

\* err := eh.fn(rb, req) returns.
FnReturn(e) ==
    /\ eh.pc = "fn"
    /\ eh' = [eh EXCEPT !.pc = "returned", !.end = e.end, !.code = e.code]
    /\ UNCHANGED <<ops, rb>>
    /\ UNCHANGED respVars
    /\ panicFrame

\* fn panics: ServeHTTP is unwound to its deferred function.
FnPanic ==
    /\ eh.pc = "fn"
    /\ eh' = [eh EXCEPT !.pc = "panic", !.end = "panic", !.code = StatusInternalServerError]
    /\ UNCHANGED <<ops, rb>>
    /\ UNCHANGED respVars
    /\ panicFrame

\* err == nil: rb.WriteTo(resp) writes the buffered status, if any, and the
\* buffered bytes, if any.
WriteTo ==
    /\ eh.pc = "returned"
    /\ eh.end = "nil"
    /\ IF rb.status # 0
       THEN /\ Commit(rb.status)
            /\ body' = body \o rb.body
       ELSE IF rb.body # << >>
            THEN Commit(StatusOK) /\ body' = body \o rb.body
            ELSE UNCHANGED <<wroteHeader, status, sent, commitSnap, body>>
    /\ eh' = [eh EXCEPT !.pc = "done"]
    /\ UNCHANGED <<ops, rb, headers>>
    /\ panicFrame

\* eh.errFn(resp, req, status, err): the status, then the error text.
ErrFn(st) ==
    /\ Commit(ErrStatus(eh.errFn, st))
    /\ body' = body \o ErrBody(eh.errFn, st)
    /\ UNCHANGED <<ops, rb, headers>>
    /\ panicFrame

\* err != nil: the error function answers with the error's status.
ReturnedError ==
    /\ eh.pc = "returned"
    /\ eh.end # "nil"
    /\ ErrFn(eh.code)
    /\ eh' = [eh EXCEPT !.pc = "done"]

\* The deferred function after a panic: recover, log, answer 500. Without
\* the recover the panic goes on to the caller.
DeferredRecover ==
    /\ eh.pc = "panic"
    /\ IF Recovers
       THEN /\ ErrFn(StatusInternalServerError)
            /\ eh' = [eh EXCEPT !.pc = "done"]
       ELSE /\ eh' = [eh EXCEPT !.pc = "crashed"]
            /\ UNCHANGED <<ops, rb>>
            /\ UNCHANGED respVars
            /\ panicFrame

NextPanic ==
    \/ \E code \in {StatusOK, responseStatus} : FnWriteHeader(code)
    \/ FnWrite
    \/ \E e \in FnEnds : FnReturn(e)
    \/ FnPanic
    \/ WriteTo
    \/ ReturnedError
    \/ DeferredRecover

SpecPanic == InitPanic /\ [][NextPanic]_vars

\* C39: when the wrapped handler panics, nothing of what it wrote has been
\* committed before the panic is recovered, the panic is recovered at the
\* handler boundary and does not go on to the caller, and the response the
\* client gets is the error function's 500 with its error body alone.
C39_PanicGives500 ==
    eh.end = "panic" =>
        /\ eh.pc \in {"panic", "done"}
        /\ eh.pc = "panic" => (~wroteHeader /\ body = << >>)
        /\ eh.pc = "done" =>
              /\ wroteHeader
              /\ status = StatusInternalServerError
              /\ body = ErrBody(eh.errFn, StatusInternalServerError)

\* The handler had buffered a success status and bytes when it panicked,
\* and the client got the 500.
C39_Witness ==
    /\ eh.end = "panic"
    /\ eh.pc = "done"
    /\ rb.status = StatusOK
    /\ rb.body # << >>
    /\ status = StatusInternalServerError

====
